---------------------------- MODULE Spec2Model ----------------------------
(***************************************************************************)
(* Model of mpi4py.util.sync (src/src/mpi4py/util/sync.py): the parallel   *)
(* Counter, the MCS-style Mutex, the recursive RMutex and the Condition    *)
(* variable, each backed by an RMA window.                                 *)
(*                                                                         *)
(* Every RMA call (Accumulate, Fetch_and_op, Compare_and_swap) is one      *)
(* atomic step that takes effect where the program issues it; a spin loop  *)
(* is a step that is enabled once the polled slot left its sentinel.       *)
(* Each rank is one sequential caller: pc[r] is the place rank r has       *)
(* reached inside the operation it is running, "idle" between operations.  *)
(***************************************************************************)
EXTENDS Integers, Sequences, FiniteSets, TLC

\* bounds
NumRanks == 3

MaxDepth == 2

MaxCalls == 4

\* The rounds of begin() ... end() each rank makes on one Sequential
MaxRounds == 2

\* program constants
NullRank == -1

TailRank == 0

MaxInt == 2147483647

NotifyAllArg == 2147483647

Ranks == 0 .. (NumRanks - 1)

RankOrNull == Ranks \cup {NullRank}

VARIABLES
    \* Mutex window: slot LOCK and NEXT on every rank, TAIL on rank 0
    LOCK, NEXT, TAIL,
    \* per-rank control state and locals of Mutex.acquire / Mutex.release
    pc, ret, blocking, prev, locked, next_rank,
    \* RMutex: the kind of lock the Condition uses, and RMutex._count
    lockKind, count,
    \* Condition window: slot FLAG and NEXT on every rank, TAIL on rank 0
    FLAG, CNEXT, CTAIL,
    \* locals of Condition._enqueue / _dequeue / _wakeup / wait / notify
    cprev, cnxt, processes, maxnumprocs, empty, state, widx, narg,
    \* Counter: the window slot, the configuration, the locals of next()
    cval, cstart, cstep, cfetched,
    \* history: who is inside a critical section, TAIL swap order of the
    \* pending blocking acquires, waiters in enqueue order, wake accounting
    holder, order, waitq, credit, wentry, woke, wakeups, observed,
    fetches, customIncr,
    \* history: per rank, the RMutex.acquire() calls that returned True less
    \* the RMutex.release() calls that returned
    nest,
    \* Sequential: comm.Get_size(), the zero-byte messages sent to each rank
    \* and not yet received, and per rank the begin() calls that returned
    \* and the end() calls made
    seqSize, inbox, began, ended,
    \* lifecycle: per rank, whether _window is not null in the Mutex (the
    \* RMutex's _block), the Condition and the Counter; whether the
    \* Condition made its own RMutex (lock=None); which free() a rank is in
    mwin, cwin, kwin, ownsLock, freeing

mutexVars == <<LOCK, NEXT, TAIL>>

ctlVars == <<pc, ret, blocking, prev, locked, next_rank>>

rmutexVars == <<lockKind, count>>

condVars == <<FLAG, CNEXT, CTAIL>>

condLocals == <<cprev, cnxt, processes, maxnumprocs, empty, state, widx, narg>>

counterVars == <<cval, cstart, cstep, cfetched, observed, fetches, customIncr>>

mutexHist == <<holder, order>>

condHist == <<waitq, credit, wentry, woke, wakeups>>

seqVars == <<seqSize, inbox, began, ended>>

\* What no operation of the Mutex, the Condition or the Counter touches
lifeVars == <<mwin, cwin, kwin, ownsLock, freeing>>

farVars == <<seqVars, lifeVars>>

vars == <<LOCK, NEXT, TAIL, pc, ret, blocking, prev, locked, next_rank,
          lockKind, count, FLAG, CNEXT, CTAIL, cprev, cnxt,
          processes, maxnumprocs, empty, state, widx, narg, cval, cstart,
          cstep, cfetched, holder, order, waitq, credit, wentry, woke,
          wakeups, observed, fetches, customIncr, nest, seqSize, inbox,
          began, ended, mwin, cwin, kwin, ownsLock, freeing>>

\* helpers
Min(a, b) == IF a < b THEN a ELSE b

Max(a, b) == IF a > b THEN a ELSE b

Range(s) == {s[i] : i \in 1 .. Len(s)}

\* MPI Compare_and_swap: the slot's new value (the old one is fetched)
CompareAndSwapAlways(cur, expected, new) == new

CompareAndSwap(cur, expected, new) == IF cur = expected THEN new ELSE cur

\* Mutex.locked(): bool(memory[lock_id]) on the calling rank
Locked(r) == LOCK[r] # 0

\* ---------------------------------------------------------------- Mutex
\* Mutex.__init__: every rank's LOCK = False, NEXT = null, TAIL = null
MutexInit ==
    /\ LOCK = [r \in Ranks |-> 0]
    /\ NEXT = [r \in Ranks |-> NullRank]
    /\ TAIL = NullRank
    /\ pc = [r \in Ranks |-> "idle"]
    /\ ret = [r \in Ranks |-> "idle"]
    /\ blocking = [r \in Ranks |-> FALSE]
    /\ prev = [r \in Ranks |-> NullRank]
    /\ locked = [r \in Ranks |-> FALSE]
    /\ next_rank = [r \in Ranks |-> NullRank]
    /\ holder = [r \in Ranks |-> FALSE]
    /\ order = <<>>

\* A Mutex.acquire that clears NEXT[self] before it looks at locked()
AcquireEnterLate(r, blk, cont) ==
    IF ~mwin[r]
    THEN /\ pc' = [pc EXCEPT ![r] = "raise_AlreadyFreed"]
         /\ UNCHANGED <<LOCK, NEXT, TAIL, ret, blocking, prev, locked,
                        next_rank, holder, order>>
    ELSE IF Locked(r)
    THEN /\ NEXT' = [NEXT EXCEPT ![r] = NullRank]
         /\ pc' = [pc EXCEPT ![r] = "raise_AlreadyHeld"]
         /\ UNCHANGED <<LOCK, TAIL, ret, blocking, prev, locked,
                        next_rank, holder, order>>
    ELSE /\ NEXT' = [NEXT EXCEPT ![r] = NullRank]
         /\ blocking' = [blocking EXCEPT ![r] = blk]
         /\ ret' = [ret EXCEPT ![r] = cont]
         /\ pc' = [pc EXCEPT ![r] = "acq_swap"]
         /\ UNCHANGED <<LOCK, TAIL, prev, locked, next_rank, holder, order>>

\* Entry of Mutex.acquire(blk), lines 215-227, to go on at `cont` when it
\* returns: AlreadyFreed if the window is null, AlreadyHeld if locked(),
\* else NEXT[self] <- null.
AcquireEnter(r, blk, cont) ==
    IF ~mwin[r]
    THEN /\ pc' = [pc EXCEPT ![r] = "raise_AlreadyFreed"]
         /\ UNCHANGED <<LOCK, NEXT, TAIL, ret, blocking, prev, locked,
                        next_rank, holder, order>>
    ELSE IF Locked(r)
    THEN /\ pc' = [pc EXCEPT ![r] = "raise_AlreadyHeld"]
         /\ UNCHANGED <<LOCK, NEXT, TAIL, ret, blocking, prev, locked,
                        next_rank, holder, order>>
    ELSE /\ NEXT' = [NEXT EXCEPT ![r] = NullRank]
         /\ blocking' = [blocking EXCEPT ![r] = blk]
         /\ ret' = [ret EXCEPT ![r] = cont]
         /\ pc' = [pc EXCEPT ![r] = "acq_swap"]
         /\ UNCHANGED <<LOCK, TAIL, prev, locked, next_rank, holder, order>>

\* The swap on TAIL, lines 228-234: Fetch_and_op(REPLACE) when blocking,
\* Compare_and_swap(null -> self) otherwise; locked = (prev == null).
AcquireSwap(r) ==
    /\ pc[r] = "acq_swap"
    /\ TAIL' = IF blocking[r] THEN r ELSE CompareAndSwap(TAIL, NullRank, r)
    /\ prev' = [prev EXCEPT ![r] = TAIL]
    /\ locked' = [locked EXCEPT ![r] = (TAIL = NullRank)]
    /\ order' = IF blocking[r] THEN Append(order, r) ELSE order
    /\ pc' = [pc EXCEPT ![r] =
                IF blocking[r] /\ TAIL # NullRank THEN "acq_link"
                ELSE "acq_flag"]
    /\ UNCHANGED <<LOCK, NEXT, ret, blocking, next_rank,  holder>>

\* Line 236: add ourselves to the waiting queue, NEXT[prev] <- self
AcquireLinkSkip(r) ==
    /\ pc[r] = "acq_link"
    /\ pc' = [pc EXCEPT ![r] = "acq_spin"]
    /\ UNCHANGED <<LOCK, NEXT, TAIL, ret, blocking, prev, locked, next_rank,
                    holder, order>>

AcquireLink(r) ==
    /\ pc[r] = "acq_link"
    /\ NEXT' = [NEXT EXCEPT ![prev[r]] = r]
    /\ pc' = [pc EXCEPT ![r] = "acq_spin"]
    /\ UNCHANGED <<LOCK, TAIL, ret, blocking, prev, locked, next_rank,
                    holder, order>>

\* Line 238: _spinloop(lock_id, 0) ends when the own LOCK slot is not 0
AcquireSpinNoWait(r) ==
    /\ pc[r] = "acq_spin"
    /\ locked' = [locked EXCEPT ![r] = TRUE]
    /\ pc' = [pc EXCEPT ![r] = "acq_flag"]
    /\ UNCHANGED <<LOCK, NEXT, TAIL, ret, blocking, prev, next_rank,
                    holder, order>>

AcquireSpin(r) ==
    /\ pc[r] = "acq_spin"
    /\ LOCK[r] # 0
    /\ locked' = [locked EXCEPT ![r] = (LOCK[r] # 0)]
    /\ pc' = [pc EXCEPT ![r] = "acq_flag"]
    /\ UNCHANGED <<LOCK, NEXT, TAIL, ret, blocking, prev, next_rank,
                    holder, order>>

\* An acquire that sets its LOCK slot whatever the swap on TAIL gave
AcquireFlagSet(r) ==
    /\ pc[r] = "acq_flag"
    /\ LOCK' = [LOCK EXCEPT ![r] = 1]
    /\ holder' = [holder EXCEPT ![r] = locked[r]]
    /\ order' = IF blocking[r] /\ locked[r]
                THEN SelectSeq(order, LAMBDA x : x # r) ELSE order
    /\ pc' = [pc EXCEPT ![r] = ret[r]]
    /\ ret' = [ret EXCEPT ![r] = "idle"]
    /\ prev' = [prev EXCEPT ![r] = NullRank]
    /\ blocking' = [blocking EXCEPT ![r] = FALSE]
    /\ locked' = [locked EXCEPT ![r] = (ret[r] = "rm_acq" /\ locked[r])]
    /\ UNCHANGED <<NEXT, TAIL, next_rank>>

\* Lines 241-245: LOCK[self] <- locked, return locked (the value stays in
\* locked[r] for a caller that reads it, RMutex.acquire)
AcquireFlag(r) ==
    /\ pc[r] = "acq_flag"
    /\ LOCK' = [LOCK EXCEPT ![r] = IF locked[r] THEN 1 ELSE 0]
    /\ holder' = [holder EXCEPT ![r] = locked[r]]
    /\ order' = IF blocking[r] /\ locked[r]
                THEN SelectSeq(order, LAMBDA x : x # r) ELSE order
    /\ pc' = [pc EXCEPT ![r] = ret[r]]
    /\ ret' = [ret EXCEPT ![r] = "idle"]
    /\ prev' = [prev EXCEPT ![r] = NullRank]
    /\ blocking' = [blocking EXCEPT ![r] = FALSE]
    /\ locked' = [locked EXCEPT ![r] = (ret[r] = "rm_acq" /\ locked[r])]
    /\ UNCHANGED <<NEXT, TAIL, next_rank>>

\* A Mutex.release that puts null into TAIL whoever is the tail
ReleaseEnterReplace(r, cont) ==
    IF ~mwin[r]
    THEN /\ pc' = [pc EXCEPT ![r] = "raise_AlreadyFreed"]
         /\ UNCHANGED <<LOCK, NEXT, TAIL, ret, blocking, prev, locked,
                        next_rank, holder, order>>
    ELSE IF ~Locked(r)
    THEN /\ pc' = [pc EXCEPT ![r] = "raise_NotHeld"]
         /\ UNCHANGED <<LOCK, NEXT, TAIL, ret, blocking, prev, locked,
                        next_rank, holder, order>>
    ELSE /\ TAIL' = NullRank
         /\ prev' = [prev EXCEPT ![r] = TAIL]
         /\ ret' = [ret EXCEPT ![r] = cont]
         /\ holder' = [holder EXCEPT ![r] = FALSE]
         /\ pc' = [pc EXCEPT ![r] = IF TAIL # r THEN "rel_spin" ELSE "rel_flag"]
         /\ UNCHANGED <<LOCK, NEXT, blocking, locked, next_rank, order>>

\* Entry of Mutex.release(), lines 252-266, to go on at `cont` when it
\* returns: NotHeld unless locked(), else Compare_and_swap(self -> null)
\* on TAIL.
ReleaseEnter(r, cont) ==
    IF ~mwin[r]
    THEN /\ pc' = [pc EXCEPT ![r] = "raise_AlreadyFreed"]
         /\ UNCHANGED <<LOCK, NEXT, TAIL, ret, blocking, prev, locked,
                        next_rank, holder, order>>
    ELSE IF ~Locked(r)
    THEN /\ pc' = [pc EXCEPT ![r] = "raise_NotHeld"]
         /\ UNCHANGED <<LOCK, NEXT, TAIL, ret, blocking, prev, locked,
                        next_rank, holder, order>>
    ELSE /\ TAIL' = CompareAndSwap(TAIL, r, NullRank)
         /\ prev' = [prev EXCEPT ![r] = TAIL]
         /\ ret' = [ret EXCEPT ![r] = cont]
         /\ holder' = [holder EXCEPT ![r] = FALSE]
         /\ pc' = [pc EXCEPT ![r] = IF TAIL # r THEN "rel_spin" ELSE "rel_flag"]
         /\ UNCHANGED <<LOCK, NEXT, blocking, locked, next_rank, order>>

\* Line 268: _spinloop(next_id, null_rank) ends when NEXT[self] is a rank
ReleaseSpin(r) ==
    /\ pc[r] = "rel_spin"
    /\ NEXT[r] # NullRank
    /\ next_rank' = [next_rank EXCEPT ![r] = NEXT[r]]
    /\ pc' = [pc EXCEPT ![r] = "rel_pass"]
    /\ UNCHANGED <<LOCK, NEXT, TAIL, ret, blocking, prev, locked, 
                   holder, order>>

\* Line 271: pass the lock over, LOCK[next_rank] <- True
ReleasePassTail(r) ==
    /\ pc[r] = "rel_pass"
    /\ LOCK' = [LOCK EXCEPT ![TAIL] = 1]
    /\ pc' = [pc EXCEPT ![r] = "rel_flag"]
    /\ UNCHANGED <<NEXT, TAIL, ret, blocking, prev, locked, next_rank,
                    holder, order>>

ReleasePass(r) ==
    /\ pc[r] = "rel_pass"
    /\ LOCK' = [LOCK EXCEPT ![next_rank[r]] = 1]
    /\ pc' = [pc EXCEPT ![r] = "rel_flag"]
    /\ UNCHANGED <<NEXT, TAIL, ret, blocking, prev, locked, next_rank,
                    holder, order>>

\* Lines 274-277: LOCK[self] <- False, return
ReleaseFlagKeep(r) ==
    /\ pc[r] = "rel_flag"
    /\ pc' = [pc EXCEPT ![r] = ret[r]]
    /\ ret' = [ret EXCEPT ![r] = "idle"]
    /\ prev' = [prev EXCEPT ![r] = NullRank]
    /\ next_rank' = [next_rank EXCEPT ![r] = NullRank]
    /\ UNCHANGED <<LOCK, NEXT, TAIL, blocking, locked, holder, order>>

ReleaseFlag(r) ==
    /\ pc[r] = "rel_flag"
    /\ LOCK' = [LOCK EXCEPT ![r] = 0]
    /\ pc' = [pc EXCEPT ![r] = ret[r]]
    /\ ret' = [ret EXCEPT ![r] = "idle"]
    /\ prev' = [prev EXCEPT ![r] = NullRank]
    /\ next_rank' = [next_rank EXCEPT ![r] = NullRank]
    /\ UNCHANGED <<NEXT, TAIL, blocking, locked, holder, order>>

\* The control states inside Mutex.acquire and inside Mutex.release
AcquirePcs == {"acq_swap", "acq_link", "acq_spin", "acq_flag"}

ReleasePcs == {"rel_spin", "rel_pass", "rel_flag"}

\* The control states of a call that is raising RuntimeError
RaisePcs == {"raise_AlreadyFreed", "raise_AlreadyHeld", "raise_NotHeld"}

\* The exception leaves the call (lines 218, 255, 343, 546, 582)
Raised(r) ==
    /\ pc[r] \in RaisePcs
    /\ pc' = [pc EXCEPT ![r] = "idle"]
    /\ ret' = [ret EXCEPT ![r] = "idle"]
    /\ UNCHANGED <<LOCK, NEXT, TAIL, blocking, prev, locked, next_rank,
                   holder, order>>

othersOfMutex ==
    <<lockKind, count, condVars, condLocals, counterVars, condHist, nest,
      farVars>>

\* A rank calls Mutex.acquire(blocking)
Acquire(r) ==
    /\ pc[r] = "idle"
    /\ \E blk \in BOOLEAN : AcquireEnter(r, blk, "idle")
    /\ UNCHANGED othersOfMutex

\* A rank calls Mutex.release()
Release(r) ==
    /\ pc[r] = "idle"
    /\ ReleaseEnter(r, "idle")
    /\ UNCHANGED othersOfMutex

\* Condition.__init__, lines 394-399: FLAG = 0, NEXT = null, TAIL = null;
\* RMutex.__init__, line 311: _count = 0
CondInit ==
    /\ count = [r \in Ranks |-> 0]
    /\ FLAG = [r \in Ranks |-> 0]
    /\ CNEXT = [r \in Ranks |-> NullRank]
    /\ CTAIL = NullRank
    /\ cprev = [r \in Ranks |-> NullRank]
    /\ cnxt = [r \in Ranks |-> NullRank]
    /\ processes = [r \in Ranks |-> <<>>]
    /\ maxnumprocs = [r \in Ranks |-> 0]
    /\ empty = [r \in Ranks |-> FALSE]
    /\ state = [r \in Ranks |-> 0]
    /\ widx = [r \in Ranks |-> 0]
    /\ narg = [r \in Ranks |-> 0]
    /\ waitq = <<>>
    /\ credit = 0
    /\ wentry = [r \in Ranks |-> <<>>]
    /\ woke = [r \in Ranks |-> <<>>]
    /\ wakeups = {}
    /\ nest = [r \in Ranks |-> 0]

\* Sequential.__init__, lines 29-30: nothing is sent before begin()
IdleSeq ==
    /\ seqSize = NumRanks
    /\ inbox = [r \in Ranks |-> 0]
    /\ began = [r \in Ranks |-> 0]
    /\ ended = [r \in Ranks |-> 0]

\* After __init__ every rank's window handles are live (lines 165, 92, 392)
LiveHandles ==
    /\ mwin = [r \in Ranks |-> TRUE]
    /\ cwin = [r \in Ranks |-> TRUE]
    /\ kwin = [r \in Ranks |-> TRUE]
    /\ freeing = [r \in Ranks |-> "none"]

IdleLife == LiveHandles /\ ownsLock = FALSE

IdleFar == IdleSeq /\ IdleLife

IdleRest == lockKind = "Mutex" /\ CondInit /\ IdleFar

IdleCounter ==
    /\ cval = 0
    /\ cstart = 0
    /\ cstep = 1
    /\ cfetched = [r \in Ranks |-> 0]
    /\ observed = <<>>
    /\ fetches = 0
    /\ customIncr = FALSE

InitMutex == MutexInit /\ IdleRest /\ IdleCounter

\* One step of rank r inside Mutex.acquire or Mutex.release
MutexStep(r) ==
    \/ Raised(r)
    \/ AcquireSwap(r)
    \/ AcquireLink(r)
    \/ AcquireSpin(r)
    \/ AcquireFlag(r)
    \/ ReleaseSpin(r)
    \/ ReleasePass(r)
    \/ ReleaseFlag(r)

MutexRun(r) == MutexStep(r) /\ UNCHANGED othersOfMutex

NextMutex ==
    \/ \E r \in Ranks : Acquire(r)
    \/ \E r \in Ranks : Release(r)
    \/ \E r \in Ranks : Raised(r) /\ UNCHANGED othersOfMutex
    \/ \E r \in Ranks : AcquireSwap(r) /\ UNCHANGED othersOfMutex
    \/ \E r \in Ranks : AcquireLink(r) /\ UNCHANGED othersOfMutex
    \/ \E r \in Ranks : AcquireSpin(r) /\ UNCHANGED othersOfMutex
    \/ \E r \in Ranks : AcquireFlag(r) /\ UNCHANGED othersOfMutex
    \/ \E r \in Ranks : ReleaseSpin(r) /\ UNCHANGED othersOfMutex
    \/ \E r \in Ranks : ReleasePass(r) /\ UNCHANGED othersOfMutex
    \/ \E r \in Ranks : ReleaseFlag(r) /\ UNCHANGED othersOfMutex

SpecMutex == InitMutex /\ [][NextMutex]_vars

\* The holder of the mutex eventually calls release()
HolderReleases(r) == holder[r] /\ Release(r)

\* Every rank inside an operation keeps taking steps (weak fairness), and a
\* rank that holds the mutex eventually calls release(), however many
\* failing acquire() calls it makes first (strong fairness)
FairSpecMutex ==
    /\ SpecMutex
    /\ \A r \in Ranks : WF_vars(MutexRun(r)) /\ SF_vars(HolderReleases(r))

\* ------------------------------------------------------------ Condition
\* The arguments notify(n) is called with; notify_all() passes (1 << 31) - 1
NotifyArgs == {-1, 0, 1, 2, NotifyAllArg}

\* `if not self._window` of the Condition (lines 521, 527, 543, 579)
CondFreedNever(r) == FALSE

CondFreed(r) == ~cwin[r]

\* What a step outside Mutex.acquire / Mutex.release leaves alone
mutexFrame ==
    <<LOCK, NEXT, TAIL, ret, blocking, prev, locked, next_rank, holder, order>>

dequeueLocals == <<cprev, cnxt, processes, maxnumprocs, empty, widx, narg>>

\* Condition.acquire(blocking), lines 520-524, on a Mutex (lines 202-227)
\* or an RMutex (RMutex.acquire, lines 332-335): AlreadyFreed if the
\* condition's window is null, or from locked() (line 283) if the mutex's is
CondAcquire(r) ==
    /\ pc[r] = "idle"
    /\ \E blk \in BOOLEAN :
         IF CondFreed(r) \/ (lockKind = "RMutex" /\ ~mwin[r])
         THEN /\ pc' = [pc EXCEPT ![r] = "raise_AlreadyFreed"]
              /\ UNCHANGED <<LOCK, NEXT, TAIL, ret, blocking, prev, locked,
                             next_rank, holder, order, count, nest>>
         ELSE IF lockKind = "RMutex" /\ Locked(r)
         THEN /\ count[r] < MaxDepth
              /\ count' = [count EXCEPT ![r] = count[r] + 1]
              /\ nest' = [nest EXCEPT ![r] = nest[r] + 1]
              /\ UNCHANGED <<pc, mutexFrame>>
         ELSE /\ AcquireEnter(r, blk,
                     IF lockKind = "RMutex" THEN "rm_acq" ELSE "idle")
              /\ UNCHANGED <<count, nest>>
    /\ UNCHANGED <<lockKind, condVars, condLocals, condHist, counterVars,
                   farVars>>

\* RMutex.acquire that sets _count = 1 whatever Mutex.acquire returned
RMutexAcquiredAlways(r) ==
    /\ pc[r] = "rm_acq"
    /\ count' = [count EXCEPT ![r] = 1]
    /\ nest' = [nest EXCEPT ![r] = IF locked[r] THEN nest[r] + 1 ELSE nest[r]]
    /\ locked' = [locked EXCEPT ![r] = FALSE]
    /\ pc' = [pc EXCEPT ![r] = "idle"]
    /\ UNCHANGED <<LOCK, NEXT, TAIL, ret, blocking, prev, next_rank, holder,
                   order, lockKind, condVars, condLocals,
                   condHist, counterVars, farVars>>

\* RMutex.acquire, lines 336-338: if locked, _count = 1
RMutexAcquired(r) ==
    /\ pc[r] = "rm_acq"
    /\ count' = [count EXCEPT ![r] = IF locked[r] THEN 1 ELSE count[r]]
    /\ nest' = [nest EXCEPT ![r] = IF locked[r] THEN nest[r] + 1 ELSE nest[r]]
    /\ locked' = [locked EXCEPT ![r] = FALSE]
    /\ pc' = [pc EXCEPT ![r] = "idle"]
    /\ UNCHANGED <<LOCK, NEXT, TAIL, ret, blocking, prev, next_rank, holder,
                   order, lockKind, condVars, condLocals,
                   condHist, counterVars, farVars>>

\* RMutex.release that releases the underlying Mutex at every depth
CondReleaseEager(r) ==
    /\ pc[r] = "idle"
    /\ IF lockKind = "RMutex"
       THEN IF ~Locked(r)
            THEN /\ pc' = [pc EXCEPT ![r] = "raise_NotHeld"]
                 /\ UNCHANGED <<mutexFrame, count, nest>>
            ELSE /\ count' = [count EXCEPT ![r] = count[r] - 1]
                 /\ nest' = [nest EXCEPT ![r] = nest[r] - 1]
                 /\ ReleaseEnter(r, "idle")
       ELSE ReleaseEnter(r, "idle") /\ UNCHANGED <<count, nest>>
    /\ UNCHANGED <<lockKind, condVars, condLocals, condHist, counterVars,
                   farVars>>

\* Condition.release(), lines 526-530, on a Mutex (lines 247-266) or an
\* RMutex (RMutex.release, lines 342-346)
CondRelease(r) ==
    /\ pc[r] = "idle"
    /\ IF CondFreed(r) \/ (lockKind = "RMutex" /\ ~mwin[r])
       THEN /\ pc' = [pc EXCEPT ![r] = "raise_AlreadyFreed"]
            /\ UNCHANGED <<mutexFrame, count, nest>>
       ELSE IF lockKind = "RMutex"
       THEN IF ~Locked(r)
            THEN /\ pc' = [pc EXCEPT ![r] = "raise_NotHeld"]
                 /\ UNCHANGED <<mutexFrame, count, nest>>
            ELSE IF count[r] - 1 # 0
            THEN /\ count' = [count EXCEPT ![r] = count[r] - 1]
                 /\ nest' = [nest EXCEPT ![r] = nest[r] - 1]
                 /\ UNCHANGED <<pc, mutexFrame>>
            ELSE /\ count' = [count EXCEPT ![r] = 0]
                 /\ nest' = [nest EXCEPT ![r] = nest[r] - 1]
                 /\ ReleaseEnter(r, "idle")
       ELSE ReleaseEnter(r, "idle") /\ UNCHANGED <<count, nest>>
    /\ UNCHANGED <<lockKind, condVars, condLocals, condHist, counterVars,
                   farVars>>

\* Condition.wait(), lines 543-547, and the first step of _enqueue, lines
\* 406-412: AlreadyFreed if the condition's or the lock's window is null,
\* NotHeld unless locked(), else swap self onto TAIL
Wait(r) ==
    /\ pc[r] = "idle"
    /\ IF CondFreed(r) \/ ~mwin[r]
       THEN /\ pc' = [pc EXCEPT ![r] = "raise_AlreadyFreed"]
            /\ UNCHANGED <<CTAIL, cprev, cnxt, waitq>>
       ELSE IF ~Locked(r)
       THEN /\ pc' = [pc EXCEPT ![r] = "raise_NotHeld"]
            /\ UNCHANGED <<CTAIL, cprev, cnxt, waitq>>
       ELSE /\ CTAIL' = r
            /\ cprev' = [cprev EXCEPT ![r] = CTAIL]
            /\ cnxt' = [cnxt EXCEPT ![r] = r]
            /\ waitq' = Append(waitq, r)
            /\ pc' = [pc EXCEPT ![r] =
                        IF CTAIL # NullRank THEN "enq_link" ELSE "enq_self"]
    /\ UNCHANGED <<mutexFrame, lockKind, count, FLAG, CNEXT, processes,
                   maxnumprocs, empty, state, widx, narg, credit, wentry,
                   woke, wakeups, counterVars, nest, farVars>>

\* _enqueue, lines 413-415: swap self into NEXT[prev], fetching its value
EnqueueLink(r) ==
    /\ pc[r] = "enq_link"
    /\ cnxt' = [cnxt EXCEPT ![r] = CNEXT[cprev[r]]]
    /\ CNEXT' = [CNEXT EXCEPT ![cprev[r]] = r]
    /\ pc' = [pc EXCEPT ![r] = "enq_self"]
    /\ UNCHANGED <<mutexFrame, lockKind, count, FLAG, CTAIL, cprev,
                   processes, maxnumprocs, empty, state, widx, narg,
                   condHist, counterVars, nest, farVars>>

\* _enqueue, lines 416-417: NEXT[self] <- next
EnqueueSelfNull(r) ==
    /\ pc[r] = "enq_self"
    /\ CNEXT' = [CNEXT EXCEPT ![r] = r]
    /\ cprev' = [cprev EXCEPT ![r] = NullRank]
    /\ cnxt' = [cnxt EXCEPT ![r] = NullRank]
    /\ pc' = [pc EXCEPT ![r] = "wait_release"]
    /\ UNCHANGED <<mutexFrame, lockKind, count, FLAG, CTAIL,
                   processes, maxnumprocs, empty, state, widx, narg,
                   condHist, counterVars, nest, farVars>>

EnqueueSelf(r) ==
    /\ pc[r] = "enq_self"
    /\ CNEXT' = [CNEXT EXCEPT ![r] = cnxt[r]]
    /\ cprev' = [cprev EXCEPT ![r] = NullRank]
    /\ cnxt' = [cnxt EXCEPT ![r] = NullRank]
    /\ pc' = [pc EXCEPT ![r] = "wait_release"]
    /\ UNCHANGED <<mutexFrame, lockKind, count, FLAG, CTAIL,
                   processes, maxnumprocs, empty, state, widx, narg,
                   condHist, counterVars, nest, farVars>>

\* wait(), line 548, _release_save, lines 481-490: save and clear the
\* recursion count, release the underlying mutex
WaitRelease(r) ==
    /\ pc[r] = "wait_release"
    /\ state' = [state EXCEPT ![r] = IF lockKind = "RMutex" THEN count[r] ELSE 0]
    /\ count' = [count EXCEPT ![r] = 0]
    /\ ReleaseEnter(r, "wait_sleep")
    /\ UNCHANGED <<lockKind, condVars, dequeueLocals, condHist, counterVars, nest, farVars>>

\* wait(), line 549, _sleep, lines 457-470: spin until FLAG is not 0, then
\* store 0 into it
SleepNoWait(r) ==
    /\ pc[r] = "wait_sleep"
    /\ FLAG' = [FLAG EXCEPT ![r] = 0]
    /\ pc' = [pc EXCEPT ![r] = "wait_acquire"]
    /\ UNCHANGED <<mutexFrame, lockKind, count, CNEXT, CTAIL,
                   condLocals, condHist, counterVars, nest, farVars>>

Sleep(r) ==
    /\ pc[r] = "wait_sleep"
    /\ FLAG[r] # 0
    /\ FLAG' = [FLAG EXCEPT ![r] = 0]
    /\ pc' = [pc EXCEPT ![r] = "wait_acquire"]
    /\ UNCHANGED <<mutexFrame, lockKind, count, CNEXT, CTAIL,
                   condLocals, condHist, counterVars, nest, farVars>>

\* wait(), line 550, _acquire_restore, lines 495 and 498: acquire the
\* underlying mutex, blocking
WaitAcquire(r) ==
    /\ pc[r] = "wait_acquire"
    /\ AcquireEnter(r, TRUE, "wait_restore")
    /\ UNCHANGED <<lockKind, count, condVars, condLocals, condHist, counterVars, nest, farVars>>

\* _acquire_restore that sets _count = 1 instead of the saved state
WaitRestoreOne(r) ==
    /\ pc[r] = "wait_restore"
    /\ count' = [count EXCEPT ![r] = IF lockKind = "RMutex" THEN 1 ELSE count[r]]
    /\ state' = [state EXCEPT ![r] = 0]
    /\ credit' = credit - 1
    /\ wakeups' = wakeups \ {r}
    /\ pc' = [pc EXCEPT ![r] = "idle"]
    /\ UNCHANGED <<mutexFrame, lockKind, condVars, dequeueLocals, waitq,
                   wentry, woke, counterVars, nest, farVars>>

\* _acquire_restore, line 496: restore the recursion count; wait() returns
WaitRestore(r) ==
    /\ pc[r] = "wait_restore"
    /\ count' = [count EXCEPT ![r] = IF lockKind = "RMutex" THEN state[r] ELSE count[r]]
    /\ state' = [state EXCEPT ![r] = 0]
    /\ credit' = credit - 1
    /\ wakeups' = wakeups \ {r}
    /\ pc' = [pc EXCEPT ![r] = "idle"]
    /\ UNCHANGED <<mutexFrame, lockKind, condVars, dequeueLocals, waitq,
                   wentry, woke, counterVars, nest, farVars>>

\* Condition.notify(n), lines 579-583, and the first step of _dequeue,
\* lines 424-433: NotHeld unless locked(), else clamp n and read TAIL
Notify(r) ==
    /\ pc[r] = "idle"
    /\ \E n \in NotifyArgs :
         IF CondFreed(r) \/ ~mwin[r]
         THEN /\ pc' = [pc EXCEPT ![r] = "raise_AlreadyFreed"]
              /\ UNCHANGED <<dequeueLocals, wentry, woke>>
         ELSE IF ~Locked(r)
         THEN /\ pc' = [pc EXCEPT ![r] = "raise_NotHeld"]
              /\ UNCHANGED <<dequeueLocals, wentry, woke>>
         ELSE /\ narg' = [narg EXCEPT ![r] = n]
              /\ maxnumprocs' = [maxnumprocs EXCEPT ![r] = Max(0, Min(n, NumRanks))]
              /\ cprev' = [cprev EXCEPT ![r] = CTAIL]
              /\ processes' = [processes EXCEPT ![r] = <<>>]
              /\ empty' = [empty EXCEPT ![r] = FALSE]
              /\ widx' = [widx EXCEPT ![r] = 0]
              /\ wentry' = [wentry EXCEPT ![r] = waitq]
              /\ woke' = [woke EXCEPT ![r] = <<>>]
              /\ pc' = [pc EXCEPT ![r] =
                          IF CTAIL # NullRank THEN "deq_head" ELSE "ntf_wake"]
              /\ UNCHANGED cnxt
    /\ UNCHANGED <<mutexFrame, lockKind, count, condVars, state, waitq,
                   credit, wakeups, counterVars, nest, farVars>>

\* _dequeue, lines 434-436: read NEXT[tail], the head of the queue
DequeueHead(r) ==
    /\ pc[r] = "deq_head"
    /\ cnxt' = [cnxt EXCEPT ![r] = CNEXT[cprev[r]]]
    /\ pc' = [pc EXCEPT ![r] = "deq_loop"]
    /\ UNCHANGED <<mutexFrame, lockKind, count, condVars, cprev,
                   processes, maxnumprocs, empty, state, widx, narg,
                   condHist, counterVars, nest, farVars>>

\* _dequeue, lines 437-442: one turn of the loop
DequeueLoop(r) ==
    /\ pc[r] = "deq_loop"
    /\ Len(processes[r]) < maxnumprocs[r] /\ ~empty[r]
    /\ LET rank == cnxt[r]
           procs == Append(processes[r], rank)
       IN /\ processes' = [processes EXCEPT ![r] = procs]
          /\ cnxt' = [cnxt EXCEPT ![r] = CNEXT[rank]]
          /\ empty' = [empty EXCEPT ![r] = (procs[1] = CNEXT[rank])]
    /\ UNCHANGED <<pc, mutexFrame,  lockKind, count, condVars, cprev,
                   maxnumprocs, state, widx, narg, condHist, counterVars, nest, farVars>>

\* _dequeue, lines 443-448: relink the tail to the new head, or clear TAIL
DequeueEndKeepTail(r) ==
    /\ pc[r] = "deq_loop"
    /\ ~(Len(processes[r]) < maxnumprocs[r] /\ ~empty[r])
    /\ CNEXT' = [CNEXT EXCEPT ![cprev[r]] = cnxt[r]]
    /\ UNCHANGED CTAIL
    /\ waitq' = SelectSeq(waitq, LAMBDA x : x \notin Range(processes[r]))
    /\ pc' = [pc EXCEPT ![r] = "ntf_wake"]
    /\ UNCHANGED <<mutexFrame, lockKind, count, FLAG, condLocals,
                   credit, wentry, woke, wakeups, counterVars, nest, farVars>>

\* A _dequeue that stores null into TAIL whether or not the walk came
\* round to the first rank it took
DequeueEndClear(r) ==
    /\ pc[r] = "deq_loop"
    /\ ~(Len(processes[r]) < maxnumprocs[r] /\ ~empty[r])
    /\ CTAIL' = NullRank /\ UNCHANGED CNEXT
    /\ waitq' = SelectSeq(waitq, LAMBDA x : x \notin Range(processes[r]))
    /\ pc' = [pc EXCEPT ![r] = "ntf_wake"]
    /\ UNCHANGED <<mutexFrame, lockKind, count, FLAG, condLocals,
                   credit, wentry, woke, wakeups, counterVars, nest, farVars>>

DequeueEnd(r) ==
    /\ pc[r] = "deq_loop"
    /\ ~(Len(processes[r]) < maxnumprocs[r] /\ ~empty[r])
    /\ IF ~empty[r]
       THEN CNEXT' = [CNEXT EXCEPT ![cprev[r]] = cnxt[r]] /\ UNCHANGED CTAIL
       ELSE CTAIL' = NullRank /\ UNCHANGED CNEXT
    /\ waitq' = SelectSeq(waitq, LAMBDA x : x \notin Range(processes[r]))
    /\ pc' = [pc EXCEPT ![r] = "ntf_wake"]
    /\ UNCHANGED <<mutexFrame, lockKind, count, FLAG, condLocals,
                   credit, wentry, woke, wakeups, counterVars, nest, farVars>>

\* _wakeup that leaves FLAG alone
WakeupOneLost(r) ==
    /\ pc[r] = "ntf_wake"
    /\ widx[r] < Len(processes[r])
    /\ LET rank == processes[r][widx[r] + 1]
       IN /\ woke' = [woke EXCEPT ![r] = Append(woke[r], rank)]
          /\ wakeups' = wakeups \cup {rank}
    /\ widx' = [widx EXCEPT ![r] = widx[r] + 1]
    /\ UNCHANGED <<pc, mutexFrame,  lockKind, count, FLAG, CNEXT, CTAIL,
                   cprev, cnxt, processes, maxnumprocs, empty, state, narg,
                   waitq, credit, wentry, counterVars, nest, farVars>>

\* _wakeup, lines 477-478: FLAG[rank] <- 1 for the next rank of processes
WakeupOne(r) ==
    /\ pc[r] = "ntf_wake"
    /\ widx[r] < Len(processes[r])
    /\ LET rank == processes[r][widx[r] + 1]
       IN /\ FLAG' = [FLAG EXCEPT ![rank] = 1]
          /\ woke' = [woke EXCEPT ![r] = Append(woke[r], rank)]
          /\ wakeups' = wakeups \cup {rank}
    /\ widx' = [widx EXCEPT ![r] = widx[r] + 1]
    /\ UNCHANGED <<pc, mutexFrame,  lockKind, count, CNEXT, CTAIL,
                   cprev, cnxt, processes, maxnumprocs, empty, state, narg,
                   waitq, credit, wentry, counterVars, nest, farVars>>

\* notify(), lines 584-586: return numprocs = len(processes)
NotifyReturn(r) ==
    /\ pc[r] = "ntf_wake"
    /\ widx[r] = Len(processes[r])
    /\ credit' = credit + Len(processes[r])
    /\ cprev' = [cprev EXCEPT ![r] = NullRank]
    /\ cnxt' = [cnxt EXCEPT ![r] = NullRank]
    /\ processes' = [processes EXCEPT ![r] = <<>>]
    /\ maxnumprocs' = [maxnumprocs EXCEPT ![r] = 0]
    /\ empty' = [empty EXCEPT ![r] = FALSE]
    /\ widx' = [widx EXCEPT ![r] = 0]
    /\ narg' = [narg EXCEPT ![r] = 0]
    /\ wentry' = [wentry EXCEPT ![r] = <<>>]
    /\ woke' = [woke EXCEPT ![r] = <<>>]
    /\ pc' = [pc EXCEPT ![r] = "idle"]
    /\ UNCHANGED <<mutexFrame, lockKind, count, condVars, state, waitq,
                   wakeups, counterVars, nest, farVars>>

\* Condition(comm, lock): the lock is a Mutex or an RMutex (lines 379-384)
InitCond ==
    /\ MutexInit
    /\ lockKind \in {"Mutex", "RMutex"}
    /\ CondInit
    /\ IdleCounter
    /\ IdleFar

\* One step of rank r inside an operation on the condition or its lock
CondRun(r) ==
    \/ MutexRun(r)
    \/ RMutexAcquired(r)
    \/ EnqueueLink(r)
    \/ EnqueueSelf(r)
    \/ WaitRelease(r)
    \/ Sleep(r)
    \/ WaitAcquire(r)
    \/ WaitRestore(r)
    \/ DequeueHead(r)
    \/ DequeueLoop(r)
    \/ DequeueEnd(r)
    \/ WakeupOne(r)
    \/ NotifyReturn(r)

\* The calls of acquire, release and notify by the ranks of S, and of
\* wait by the ranks of W
CondCalls(S, W) ==
    \/ \E r \in S : CondAcquire(r)
    \/ \E r \in S : CondRelease(r)
    \/ \E r \in S : Notify(r)
    \/ \E r \in W : Wait(r)

\* Every step inside an operation on the condition or its lock
CondSteps ==
    \/ \E r \in Ranks : Raised(r) /\ UNCHANGED othersOfMutex
    \/ \E r \in Ranks : AcquireSwap(r) /\ UNCHANGED othersOfMutex
    \/ \E r \in Ranks : AcquireLink(r) /\ UNCHANGED othersOfMutex
    \/ \E r \in Ranks : AcquireSpin(r) /\ UNCHANGED othersOfMutex
    \/ \E r \in Ranks : AcquireFlag(r) /\ UNCHANGED othersOfMutex
    \/ \E r \in Ranks : ReleaseSpin(r) /\ UNCHANGED othersOfMutex
    \/ \E r \in Ranks : ReleasePass(r) /\ UNCHANGED othersOfMutex
    \/ \E r \in Ranks : ReleaseFlag(r) /\ UNCHANGED othersOfMutex
    \/ \E r \in Ranks : RMutexAcquired(r)
    \/ \E r \in Ranks : EnqueueLink(r)
    \/ \E r \in Ranks : EnqueueSelf(r)
    \/ \E r \in Ranks : WaitRelease(r)
    \/ \E r \in Ranks : Sleep(r)
    \/ \E r \in Ranks : WaitAcquire(r)
    \/ \E r \in Ranks : WaitRestore(r)
    \/ \E r \in Ranks : DequeueHead(r)
    \/ \E r \in Ranks : DequeueLoop(r)
    \/ \E r \in Ranks : DequeueEnd(r)
    \/ \E r \in Ranks : WakeupOne(r)
    \/ \E r \in Ranks : NotifyReturn(r)

\* The ranks that call wait(): every rank but rank 0, which is left to
\* acquire, release and notify (a rank asleep in wait() cannot notify)
Waiters == Ranks \ {TailRank}

NextCond == CondCalls(Ranks, Waiters) \/ CondSteps

SpecCond == InitCond /\ [][NextCond]_vars

\* The same program when only two ranks of the communicator use the
\* condition, each of them free to wait and to notify
Pair == {TailRank, NumRanks - 1}

NextCondPair == CondCalls(Pair, Pair) \/ CondSteps

\* The holder of the condition's lock calls release() at recursion depth
\* k (depth 0 on a Mutex, which keeps no count)
HolderUnwinds(r, k) == holder[r] /\ count[r] = k /\ CondRelease(r)

\* Every rank inside an operation keeps taking steps (weak fairness); a
\* rank that holds the lock at some depth again and again, whatever other
\* calls it makes in between, calls release() at that depth, so that in
\* the end it makes the call that frees the lock (strong fairness)
FairSpecCond ==
    /\ InitCond
    /\ [][NextCondPair]_vars
    /\ \A r \in Pair :
          /\ WF_vars(CondRun(r))
          /\ \A k \in 0 .. MaxDepth : SF_vars(HolderUnwinds(r, k))

\* -------------------------------------------------------------- Counter
\* The least value of typecode 'i', a C int
MinInt == (-MaxInt) - 1

\* MPI.SUM on the counter's C int: the sum, wrapped to the type's range
\* (computed without leaving that range)
Sum(a, b) ==
    IF b >= 0 /\ a > MaxInt - b THEN MinInt + ((b - (MaxInt - a)) - 1)
    ELSE IF b < 0 /\ a < MinInt - b THEN MaxInt - (((MinInt - b) - a) - 1)
    ELSE a + b

\* Values of start and step the counter is created with
Starts == {0, 10, MaxInt - 1}

Steps == {1, 3}

\* Explicit increments passed to next(incr)
Incrs == {-2, 5}

\* Counter.__init__, lines 96-106: the slot on root holds start
CounterInit ==
    /\ cstart \in Starts
    /\ cstep \in Steps
    /\ cval = cstart
    /\ cfetched = [r \in Ranks |-> 0]
    /\ observed = <<>>
    /\ fetches = 0
    /\ customIncr = FALSE

othersOfCounter ==
    <<mutexVars, ret, blocking, prev, locked, next_rank,  lockKind,
      count, condVars, condLocals, mutexHist, condHist, nest, farVars>>

\* Counter.next(incr), lines 126-137: Fetch_and_op(SUM) on the slot
CounterFetchPost(r, dflt, incr) ==
    /\ pc[r] = "idle"
    /\ fetches < MaxCalls
    /\ cfetched' = [cfetched EXCEPT ![r] = Sum(cval, IF dflt THEN cstep ELSE incr)]
    /\ cval' = Sum(cval, IF dflt THEN cstep ELSE incr)
    /\ fetches' = fetches + 1
    /\ customIncr' = (customIncr \/ ~dflt)
    /\ pc' = [pc EXCEPT ![r] = "cnt_ret"]
    /\ UNCHANGED <<cstart, cstep, observed>>

CounterFetch(r, dflt, incr) ==
    /\ pc[r] = "idle"
    /\ IF ~kwin[r]
       THEN /\ pc' = [pc EXCEPT ![r] = "raise_AlreadyFreed"]
            /\ UNCHANGED <<cfetched, cval, fetches, customIncr>>
       ELSE /\ fetches < MaxCalls
            /\ cfetched' = [cfetched EXCEPT ![r] = cval]
            /\ cval' = Sum(cval, IF dflt THEN cstep ELSE incr)
            /\ fetches' = fetches + 1
            /\ customIncr' = (customIncr \/ ~dflt)
            /\ pc' = [pc EXCEPT ![r] = "cnt_ret"]
    /\ UNCHANGED <<cstart, cstep, observed>>

\* Counter.next, lines 138-139: Unlock and return prev[0]
CounterReturn(r) ==
    /\ pc[r] = "cnt_ret"
    /\ observed' = Append(observed, cfetched[r])
    /\ cfetched' = [cfetched EXCEPT ![r] = 0]
    /\ pc' = [pc EXCEPT ![r] = "idle"]
    /\ UNCHANGED <<cval, cstart, cstep, fetches, customIncr>>

InitCounter ==
    /\ CounterInit
    /\ pc = [r \in Ranks |-> "idle"]
    /\ LOCK = [r \in Ranks |-> 0]
    /\ NEXT = [r \in Ranks |-> NullRank]
    /\ TAIL = NullRank
    /\ ret = [r \in Ranks |-> "idle"]
    /\ blocking = [r \in Ranks |-> FALSE]
    /\ prev = [r \in Ranks |-> NullRank]
    /\ locked = [r \in Ranks |-> FALSE]
    /\ next_rank = [r \in Ranks |-> NullRank]
    /\ holder = [r \in Ranks |-> FALSE]
    /\ order = <<>>
    /\ IdleRest

NextCounter ==
    \/ \E r \in Ranks, incr \in Incrs :
          CounterFetch(r, TRUE, incr) /\ UNCHANGED othersOfCounter
    \/ \E r \in Ranks, incr \in Incrs :
          CounterFetch(r, FALSE, incr) /\ UNCHANGED othersOfCounter
    \/ \E r \in Ranks : CounterReturn(r) /\ UNCHANGED othersOfCounter

SpecCounter == InitCounter /\ [][NextCounter]_vars

\* ------------------------------------------------------------ free()
\* Everything but pc
allButPc ==
    <<mutexFrame, lockKind, count, condVars, condLocals, condHist,
      counterVars, nest, seqVars, lifeVars>>

\* What free() of the Counter alone changes is kwin and freeing
lifeButCounter == <<mwin, cwin, ownsLock>>

\* The control states of a call that is returning a value
ReturnPcs == {"ret_free", "ret_count", "ret_locked", "ret_wait_for"}

\* The call returns
Returned(r) ==
    /\ pc[r] \in ReturnPcs
    /\ pc' = [pc EXCEPT ![r] = "idle"]
    /\ freeing' = [freeing EXCEPT ![r] = "none"]
    /\ UNCHANGED <<mutexFrame, lockKind, count, condVars, condLocals,
                   condHist, counterVars, nest, seqVars, mwin, cwin, kwin,
                   ownsLock>>

\* Mutex.locked(), lines 279-287, also reached through RMutex.locked()
\* (lines 348-350) and Condition.locked() (lines 532-534), which only
\* delegate: AlreadyFreed if the mutex's window is null
LockedCall(r) ==
    /\ pc[r] = "idle"
    /\ pc' = [pc EXCEPT ![r] =
                IF ~mwin[r] THEN "raise_AlreadyFreed" ELSE "ret_locked"]
    /\ UNCHANGED allButPc

\* RMutex.count(), lines 352-354: return self._count
RMutexCount(r) ==
    /\ pc[r] = "idle"
    /\ lockKind = "RMutex"
    /\ pc' = [pc EXCEPT ![r] = "ret_count"]
    /\ UNCHANGED allButPc

\* Condition.wait_for(predicate), lines 553-566: return the predicate's
\* value if it is true, else wait()
WaitFor(r) ==
    /\ pc[r] = "idle"
    /\ \E p \in BOOLEAN :
         IF p
         THEN /\ pc' = [pc EXCEPT ![r] = "ret_wait_for"]
              /\ UNCHANGED allButPc
         ELSE Wait(r)

\* Counter.free(), lines 141-146: null the handle, then window.free(),
\* which is collective and does nothing on a null window
CounterFree(r) ==
    /\ pc[r] = "idle"
    /\ kwin' = [kwin EXCEPT ![r] = FALSE]
    /\ freeing' = [freeing EXCEPT ![r] = "counter"]
    /\ pc' = [pc EXCEPT ![r] = IF kwin[r] THEN "kfree_coll" ELSE "ret_free"]
    /\ UNCHANGED <<mutexFrame, lockKind, count, condVars, condLocals,
                   condHist, counterVars, nest, seqVars, lifeButCounter>>

\* The collective window.free() of the Counter returns once every rank
\* has called it
CounterFreeColl(r) ==
    /\ pc[r] = "kfree_coll"
    /\ \A q \in Ranks : ~kwin[q]
    /\ pc' = [pc EXCEPT ![r] = "ret_free"]
    /\ UNCHANGED allButPc

\* What the steps of a free() leave alone besides the mutex
freeFrame ==
    <<lockKind, condVars, condLocals, condHist, counterVars, seqVars>>

\* Mutex.free() that nulls the handle without releasing a held mutex
MutexFreeEnterNoRelease(r) ==
    /\ pc' = [pc EXCEPT ![r] = "mfree_win"]
    /\ UNCHANGED mutexFrame

\* Entry of Mutex.free(), lines 291-293: release() if the window is live
\* and the mutex is held, then go on at line 294
MutexFreeEnter(r) ==
    IF mwin[r] /\ Locked(r)
    THEN ReleaseEnter(r, "mfree_win")
    ELSE /\ pc' = [pc EXCEPT ![r] = "mfree_win"]
         /\ UNCHANGED mutexFrame

\* Where a finished Mutex.free() goes on: in RMutex.free (line 359) when
\* the lock is an RMutex, else it returns
MutexFreeNext == IF lockKind = "RMutex" THEN "rfree_count" ELSE "ret_free"

\* A rank calls free() on a lock the Condition does not own: Mutex.free
\* (lines 289-296), or RMutex.free (lines 356-359), which starts with it
LockFree(r) ==
    /\ pc[r] = "idle"
    /\ ~ownsLock
    /\ freeing' = [freeing EXCEPT ![r] = "lock"]
    /\ MutexFreeEnter(r)
    /\ UNCHANGED <<freeFrame, count, nest, mwin, cwin, kwin, ownsLock>>

\* Mutex.free(), lines 294-296: null the handle, then window.free()
MutexFreeWin(r) ==
    /\ pc[r] = "mfree_win"
    /\ mwin' = [mwin EXCEPT ![r] = FALSE]
    /\ pc' = [pc EXCEPT ![r] = IF mwin[r] THEN "mfree_coll" ELSE MutexFreeNext]
    /\ UNCHANGED <<mutexFrame, freeFrame, count, nest, cwin, kwin, ownsLock,
                   freeing>>

\* The collective window.free() of the Mutex returns once every rank has
\* called it
MutexFreeColl(r) ==
    /\ pc[r] = "mfree_coll"
    /\ \A q \in Ranks : ~mwin[q]
    /\ pc' = [pc EXCEPT ![r] = MutexFreeNext]
    /\ UNCHANGED allButPc

\* RMutex.free(), line 359: _count = 0; then back in Condition.free (line
\* 600) if that made the call
RMutexFreeCount(r) ==
    /\ pc[r] = "rfree_count"
    /\ count' = [count EXCEPT ![r] = 0]
    /\ nest' = [nest EXCEPT ![r] = 0]
    /\ pc' = [pc EXCEPT ![r] =
                IF freeing[r] = "cond" THEN "cfree_win" ELSE "ret_free"]
    /\ UNCHANGED <<mutexFrame, freeFrame, lifeVars>>

\* Condition.free(), line 599, _lock_reset, lines 502-509: zero the count
\* of an RMutex, release the mutex if its window is live and it is held
CondFree(r) ==
    /\ pc[r] = "idle"
    /\ freeing' = [freeing EXCEPT ![r] = "cond"]
    /\ count' = [count EXCEPT ![r] =
                    IF lockKind = "RMutex" THEN 0 ELSE count[r]]
    /\ nest' = [nest EXCEPT ![r] = 0]
    /\ IF mwin[r] /\ Locked(r)
       THEN ReleaseEnter(r, "cfree_lock")
       ELSE /\ pc' = [pc EXCEPT ![r] = "cfree_lock"]
            /\ UNCHANGED mutexFrame
    /\ UNCHANGED <<freeFrame, mwin, cwin, kwin, ownsLock>>

\* Condition.free(), line 600: _lock_free is RMutex.free of the lock the
\* Condition made, and does nothing for a lock it was given
CondFreeLock(r) ==
    /\ pc[r] = "cfree_lock"
    /\ IF ownsLock
       THEN MutexFreeEnter(r)
       ELSE /\ pc' = [pc EXCEPT ![r] = "cfree_win"]
            /\ UNCHANGED mutexFrame
    /\ UNCHANGED <<freeFrame, count, nest, lifeVars>>

\* Condition.free(), lines 601-603: null the handle, then window.free()
CondFreeWin(r) ==
    /\ pc[r] = "cfree_win"
    /\ cwin' = [cwin EXCEPT ![r] = FALSE]
    /\ pc' = [pc EXCEPT ![r] = IF cwin[r] THEN "cfree_coll" ELSE "ret_free"]
    /\ UNCHANGED <<mutexFrame, freeFrame, count, nest, mwin, kwin, ownsLock,
                   freeing>>

\* The collective window.free() of the Condition returns once every rank
\* has called it
CondFreeColl(r) ==
    /\ pc[r] = "cfree_coll"
    /\ \A q \in Ranks : ~cwin[q]
    /\ pc' = [pc EXCEPT ![r] = "ret_free"]
    /\ UNCHANGED allButPc

\* The objects after construction: the Condition made its own RMutex, or
\* was given a Mutex or an RMutex
InitFree ==
    /\ MutexInit
    /\ lockKind \in {"Mutex", "RMutex"}
    /\ CondInit
    /\ IdleCounter
    /\ IdleSeq
    /\ LiveHandles
    /\ ownsLock \in BOOLEAN
    /\ ownsLock => lockKind = "RMutex"

\* The calls that find out what a freed object does, made by two ranks
LifeCalls ==
    \/ \E r \in Pair : LockedCall(r)
    \/ \E r \in Pair : RMutexCount(r)
    \/ \E r \in Pair : WaitFor(r)
    \/ \E r \in Pair :
          ~kwin[r] /\ CounterFetch(r, TRUE, 0) /\ UNCHANGED othersOfCounter

\* free() of each object, by every rank, and its steps
LifeSteps ==
    \/ \E r \in Ranks : CounterFree(r)
    \/ \E r \in Ranks : LockFree(r)
    \/ \E r \in Ranks : CondFree(r)
    \/ \E r \in Ranks : CounterFreeColl(r)
    \/ \E r \in Ranks : MutexFreeWin(r)
    \/ \E r \in Ranks : MutexFreeColl(r)
    \/ \E r \in Ranks : RMutexFreeCount(r)
    \/ \E r \in Ranks : CondFreeLock(r)
    \/ \E r \in Ranks : CondFreeWin(r)
    \/ \E r \in Ranks : CondFreeColl(r)
    \/ \E r \in Ranks : Returned(r)

NextFree == CondCalls(Pair, Pair) \/ CondSteps \/ LifeCalls \/ LifeSteps

SpecFree == InitFree /\ [][NextFree]_vars

\* free() of a Mutex used on its own, by every rank, and its steps
MutexFrees ==
    \/ \E r \in Ranks : LockFree(r)
    \/ \E r \in Ranks : MutexFreeWin(r)
    \/ \E r \in Ranks : MutexFreeColl(r)
    \/ \E r \in Ranks : Returned(r)

NextMutexFree == NextMutex \/ MutexFrees

SpecMutexFree == InitMutex /\ [][NextMutexFree]_vars

\* Every rank inside acquire() or release(), the release() that free()
\* makes included, keeps taking steps
FairSpecMutexFree ==
    /\ SpecMutexFree
    /\ \A r \in Ranks : WF_vars(MutexRun(r))

\* ------------------------------------------------------- Sequential
\* What begin() and end() leave alone
seqFrame ==
    <<mutexFrame, lockKind, count, condVars, condLocals, condHist,
      counterVars, nest, lifeVars, seqSize>>

\* The ranks of the communicator, 0 .. comm.Get_size() - 1
SeqRanks == 0 .. (seqSize - 1)

\* A begin() that returns without receiving
SeqBeginNoRecv(r) ==
    /\ pc[r] = "idle"
    /\ began[r] = ended[r]
    /\ began[r] < MaxRounds
    /\ began' = [began EXCEPT ![r] = began[r] + 1]
    /\ UNCHANGED <<pc, inbox, ended, seqFrame>>

\* Sequential.begin(), lines 41-51, up to the call of Recv: it returns at
\* once when size == 1 (line 46) and on rank 0 (line 50)
SeqBegin(r) ==
    /\ pc[r] = "idle"
    /\ began[r] = ended[r]
    /\ began[r] < MaxRounds
    /\ IF seqSize = 1 \/ r = 0
       THEN /\ began' = [began EXCEPT ![r] = began[r] + 1]
            /\ UNCHANGED pc
       ELSE /\ pc' = [pc EXCEPT ![r] = "seq_recv"]
            /\ UNCHANGED began
    /\ UNCHANGED <<inbox, ended, seqFrame>>

\* Line 51: comm.Recv from rank - 1 returns once a message from that rank
\* is there; messages of one sender and tag are matched in the order sent
SeqRecv(r) ==
    /\ pc[r] = "seq_recv"
    /\ inbox[r] > 0
    /\ inbox' = [inbox EXCEPT ![r] = inbox[r] - 1]
    /\ began' = [began EXCEPT ![r] = began[r] + 1]
    /\ pc' = [pc EXCEPT ![r] = "idle"]
    /\ UNCHANGED <<ended, seqFrame>>

\* Sequential.end(), lines 53-63, up to the call of Send: it returns at
\* once when size == 1 (line 58) and on the last rank (line 62)
SeqEnd(r) ==
    /\ pc[r] = "idle"
    /\ began[r] = ended[r] + 1
    /\ ended' = [ended EXCEPT ![r] = ended[r] + 1]
    /\ IF seqSize = 1 \/ r = seqSize - 1
       THEN UNCHANGED <<pc, inbox>>
       ELSE /\ inbox' = [inbox EXCEPT ![r + 1] = inbox[r + 1] + 1]
            /\ pc' = [pc EXCEPT ![r] = "seq_send"]
    /\ UNCHANGED <<began, seqFrame>>

\* Line 63: the standard-mode Send of zero bytes returns, before or after
\* the message is received
SeqSent(r) ==
    /\ pc[r] = "seq_send"
    /\ pc' = [pc EXCEPT ![r] = "idle"]
    /\ UNCHANGED <<inbox, began, ended, seqFrame>>

\* Sequential(comm) on a communicator of 1 to NumRanks ranks
InitSeq ==
    /\ MutexInit
    /\ lockKind = "Mutex"
    /\ CondInit
    /\ IdleCounter
    /\ IdleLife
    /\ seqSize \in 1 .. NumRanks
    /\ inbox = [r \in Ranks |-> 0]
    /\ began = [r \in Ranks |-> 0]
    /\ ended = [r \in Ranks |-> 0]

NextSeq ==
    \/ \E r \in SeqRanks : SeqBegin(r)
    \/ \E r \in SeqRanks : SeqRecv(r)
    \/ \E r \in SeqRanks : SeqEnd(r)
    \/ \E r \in SeqRanks : SeqSent(r)

SpecSequential == InitSeq /\ [][NextSeq]_vars

\* ------------------------------------------------------ claims on Mutex
\* C1: mutual exclusion. At most one rank is between the return of an
\* acquire() that returned True and the start of its next release(): a
\* rank's acquire() returns True only when no other rank is in that span.
C1_MutualExclusion ==
    \A a, b \in Ranks : holder[a] /\ holder[b] => a = b

\* A rank holds the mutex while another one, queued behind it, spins
C1_Witness ==
    \E a, b \in Ranks :
        a # b /\ holder[a] /\ pc[a] = "idle" /\ pc[b] = "acq_spin"

\* C2 as stated: in every reachable state at most one rank has LOCK = 1
C2_AtMostOneLockSlot ==
    Cardinality({r \in Ranks : LOCK[r] = 1}) <= 1

\* C2 amended: at most one rank has LOCK = 1, the releasing rank that has
\* already written its successor's LOCK and not yet cleared its own aside;
\* so locked() is true on at most one rank that is not inside release().
C2_AtMostOneLockedOutsideHandoff ==
    /\ Cardinality({r \in Ranks : LOCK[r] = 1 /\ pc[r] # "rel_flag"}) <= 1
    /\ Cardinality({r \in Ranks : LOCK[r] = 1 /\ pc[r] \notin ReleasePcs}) <= 1

\* The hand-off has reached the successor, which returned from acquire()
C2_Witness ==
    \E a, b \in Ranks :
        a # b /\ pc[a] = "rel_flag" /\ LOCK[b] = 1 /\ holder[b]

\* C3: FIFO. A blocking acquire() that is about to return True is the
\* earliest, in the order of the swaps on TAIL, of the blocking acquires
\* that have swapped and not yet returned.
C3_FifoGrant ==
    \A r \in Ranks :
        pc[r] = "acq_flag" /\ blocking[r] /\ locked[r] =>
            Len(order) > 0 /\ order[1] = r

\* A queued rank is granted the lock while another one waits behind it
C3_Witness ==
    \E r \in Ranks :
        /\ pc[r] = "acq_flag" /\ blocking[r] /\ locked[r]
        /\ prev[r] # NullRank
        /\ Len(order) >= 2

\* C4: liveness. Every blocking acquire() eventually returns True and
\* every release() terminates.
C4_Liveness ==
    \A r \in Ranks :
        /\ (pc[r] \in AcquirePcs /\ blocking[r]) ~> holder[r]
        /\ (pc[r] \in ReleasePcs) ~> (pc[r] = "idle")

\* A releasing rank spins on its NEXT slot: its successor has swapped
\* TAIL and has not linked itself yet
C4_Witness ==
    \E a, b \in Ranks :
        /\ pc[a] = "rel_spin" /\ NEXT[a] = NullRank
        /\ pc[b] = "acq_link" /\ prev[b] = a

\* C5: a non-blocking acquire() never spins; it returns True exactly when
\* TAIL was null at its compare-and-swap; when it fails, none of its steps
\* changes TAIL, another rank's NEXT or LOCK slot, or the grant order.
C5_NonBlockingStep(r) ==
    /\ (pc[r] = "idle" /\ pc'[r] = "acq_swap" /\ ~blocking'[r]) =>
            /\ TAIL' = TAIL /\ LOCK' = LOCK /\ order' = order
            /\ \A q \in Ranks \ {r} : NEXT'[q] = NEXT[q]
    /\ (pc[r] = "acq_swap" /\ ~blocking[r] /\ pc'[r] # "acq_swap") =>
            /\ pc'[r] = "acq_flag"
            /\ locked'[r] = (TAIL = NullRank)
            /\ TAIL' = (IF TAIL = NullRank THEN r ELSE TAIL)
            /\ NEXT' = NEXT /\ LOCK' = LOCK /\ order' = order
    /\ (pc[r] = "acq_flag" /\ ~blocking[r] /\ pc'[r] # "acq_flag") =>
            /\ pc'[r] = "idle"
            /\ LOCK'[r] = (IF locked[r] THEN 1 ELSE 0)
            /\ holder'[r] = locked[r]
            /\ TAIL' = TAIL /\ NEXT' = NEXT /\ order' = order
            /\ \A q \in Ranks \ {r} : LOCK'[q] = LOCK[q]
            /\ ~locked[r] => LOCK' = LOCK

C5_NonBlocking == [][\A r \in Ranks : C5_NonBlockingStep(r)]_vars

\* A non-blocking acquire() has failed while other ranks are queued
C5_Witness ==
    \E r, a, b \in Ranks :
        /\ pc[r] = "acq_flag" /\ ~blocking[r] /\ ~locked[r]
        /\ holder[a] /\ pc[b] = "acq_spin"

\* ---------------------------------------------------- claims on Counter
\* c = a + b in the integers, for values of the counter's type
IsSum(a, b, c) ==
    IF b >= 0 THEN c >= a /\ c - a = b ELSE c < a /\ a - c = -b

\* No call of next() is in progress and every call used the default step
CounterQuiet == (\A r \in Ranks : pc[r] = "idle") /\ ~customIncr

\* The values k calls returned are start, start+step, ..., each once, and
\* the slot holds start + k*step, the value a further call returns
Progression(k) ==
    /\ Len(observed) = k
    /\ Cardinality(Range(observed)) = k
    /\ \A i \in 0 .. (k - 1) :
          \E j \in 1 .. k : IsSum(cstart, i * cstep, observed[j])
    /\ IsSum(cstart, k * cstep, cval)

\* C6 as stated: after k calls of next() with the default increment the
\* returned values are exactly start, ..., start+(k-1)*step, each returned
\* by one call, and a further call returns start+k*step.
C6_ArithmeticProgression == CounterQuiet => Progression(fetches)

\* C6 amended: the same, as long as start+k*step is a value of the
\* counter's integer type (typecode 'i'); past it the slot wraps around.
C6_ProgressionInRange ==
    (CounterQuiet /\ fetches * cstep <= MaxInt - cstart)
        => Progression(fetches)

\* Calls from different ranks were in flight together and have returned
\* out of the order of their fetches
C6_Witness ==
    /\ CounterQuiet
    /\ fetches = 3
    /\ cstart = 10 /\ cstep = 3
    /\ observed = <<13, 10, 16>>


\* -------------------------------------------------- claims on Condition
\* The waiter queue the window holds, head first: the walk _dequeue makes
\* (lines 434-442) from NEXT[TAIL] round to TAIL
RECURSIVE RingFrom(_, _)
RingFrom(x, k) ==
    IF k = 0 \/ x = NullRank THEN <<>>
    ELSE IF x = CTAIL THEN <<x>>
    ELSE <<x>> \o RingFrom(CNEXT[x], k - 1)

Ring == IF CTAIL = NullRank THEN <<>> ELSE RingFrom(CNEXT[CTAIL], NumRanks)

\* No rank is between the two ends of _enqueue
QueueQuiet == \A h \in Ranks : pc[h] \notin {"enq_link", "enq_self"}

\* s without the ranks of t
Without(s, t) == SelectSeq(s, LAMBDA x : x \notin Range(t))

\* notify(n) on rank r has dequeued and issued every wake-up, and is about
\* to return len(processes)
NotifyDone(r) == pc[r] = "ntf_wake" /\ widx[r] = Len(processes[r])

\* C7: notify(n) by a rank holding the lock returns min(n, w), w the number
\* of ranks in the waiter queue at entry, and 0 for n <= 0; the queue in the
\* window then is the queue at entry without the returned ranks; FLAG = 1
\* was written to exactly the returned ranks, once each; no rank left in
\* the queue has its FLAG set.
C7_NotifyCount ==
    \A r \in Ranks : NotifyDone(r) =>
        /\ Locked(r)
        /\ Len(processes[r]) =
              IF narg[r] <= 0 THEN 0 ELSE Min(narg[r], Len(wentry[r]))
        /\ Ring = Without(wentry[r], processes[r])
        /\ Len(Ring) = Len(wentry[r]) - Len(processes[r])
        /\ woke[r] = processes[r]
        /\ Cardinality(Range(woke[r])) = Len(woke[r])
        /\ \A x \in Range(Ring) : FLAG[x] = 0

\* A notify(1) that found two waiters returns 1 and leaves one queued
C7_Witness ==
    \E r \in Ranks :
        /\ NotifyDone(r)
        /\ narg[r] = 1
        /\ Len(wentry[r]) = 2
        /\ Len(processes[r]) = 1
        /\ Len(Ring) = 1

\* C8: wake-up order is FIFO. waitq lists the queued ranks in the order
\* their wait() enqueued them. The queue in the window is waitq whenever no
\* enqueue is half done, and the ranks a notify dequeues are the first
\* ranks of the queue it found, in that order, the rest staying queued in
\* their order.
C8_FifoWakeup ==
    /\ QueueQuiet => Ring = waitq
    /\ \A r \in Ranks : pc[r] = "ntf_wake" =>
          LET k == Len(processes[r])
          IN /\ k <= Len(wentry[r])
             /\ processes[r] = SubSeq(wentry[r], 1, k)
             /\ waitq = SubSeq(wentry[r], k + 1, Len(wentry[r]))

\* A notify took the earlier of two waiters, the higher rank, and left the
\* later one queued
C8_Witness ==
    \E r \in Ranks :
        /\ NotifyDone(r)
        /\ wentry[r] = <<2, 1>>
        /\ processes[r] = <<2>>
        /\ Ring = <<1>>

\* Rank r is in wait() between the end of _enqueue and the end of _sleep
Asleep(r) ==
    \/ pc[r] \in {"wait_release", "wait_sleep"}
    \/ pc[r] \in ReleasePcs /\ ret[r] = "wait_sleep"

\* Rank r is in wait() past _sleep, re-acquiring the lock or about to return
PastSleep(r) ==
    \/ pc[r] \in {"wait_acquire", "wait_restore"}
    \/ pc[r] \in AcquirePcs /\ ret[r] = "wait_restore"

\* C9: no spurious wake-ups. A rank that is past _sleep in wait() was
\* dequeued by a notify that wrote its FLAG; a waiter still queued has
\* FLAG = 0, so its _sleep cannot end; and the wait() calls completed never
\* outnumber the sum of the values notify returned (credit is that sum less
\* the number of completed waits).
C9_NoSpuriousWakeup ==
    /\ \A r \in Ranks : PastSleep(r) =>
          r \in wakeups /\ r \notin Range(waitq)
    /\ \A r \in Ranks : Asleep(r) /\ r \in Range(waitq) =>
          FLAG[r] = 0
    /\ credit >= 0

\* One rank is about to return from wait() while another, not notified,
\* still sleeps
C9_Witness ==
    \E r, q \in Ranks :
        /\ pc[r] = "wait_restore"
        /\ pc[q] = "wait_sleep"
        /\ q \in Range(waitq)
        /\ credit = 1

\* A notify has taken rank r off the queue and not yet written its FLAG
WakePending(r) ==
    \E q \in Ranks : pc[q] = "ntf_wake" /\ r \in Range(processes[q])

\* Rank r is in wait(), not yet past _sleep, and a notify has dequeued it
Dequeued(r) == Asleep(r) /\ r \notin Range(waitq)

\* C10: no lost wake-up. A rank in wait() is in the queue of the window
\* when it releases the lock, and while it has not been woken it is in
\* that queue, or in the hands of a notify that is about to write its
\* FLAG, whenever a notify can look; and, the ranks being scheduled fairly
\* and every lock holder releasing in the end, a rank that a notify
\* dequeued returns from wait().
C10_NoLostWakeup ==
    /\ [](\A r \in Ranks :
            /\ pc[r] = "wait_release" => r \in Range(Ring)
            /\ QueueQuiet /\ Asleep(r) /\ FLAG[r] = 0 /\ ~WakePending(r)
                  => r \in Range(Ring))
    /\ \A r \in Ranks :
          Dequeued(r) ~> (pc[r] = "idle" /\ r \notin wakeups)

\* The notifier's FLAG write lands while the waiter is still releasing the
\* lock, before it has started to sleep
C10_Witness ==
    \E r \in Ranks :
        /\ pc[r] \in ReleasePcs
        /\ ret[r] = "wait_sleep"
        /\ FLAG[r] = 1

\* ----------------------------------------------------- claims on RMutex
\* C11: on an RMutex, between operations, count() > 0 exactly when locked()
\* is True on that rank; count() is never negative; and in every state
\* count is 0 on a rank whose LOCK slot is 0. The operations are blocking
\* and non-blocking acquire, release, and wait/notify on a Condition that
\* uses the RMutex.
C11_CountIffLocked ==
    lockKind = "RMutex" =>
        \A r \in Ranks :
            /\ count[r] >= 0
            /\ pc[r] = "idle" => (count[r] > 0 <=> Locked(r))
            /\ ~Locked(r) => count[r] = 0

\* One rank holds the RMutex two deep while another, which released it at
\* some depth, sleeps in wait() with count 0
C11_Witness ==
    /\ lockKind = "RMutex"
    /\ \E r, q \in Ranks :
          /\ pc[r] = "idle" /\ count[r] = 2 /\ Locked(r)
          /\ pc[q] = "wait_sleep" /\ count[q] = 0 /\ ~Locked(q)

\* C12: on an RMutex, k nested acquire() calls give count() = k and take
\* the underlying Mutex once: an acquire() by the holder leaves the window
\* as it is. A release() at depth above 1 lowers the count, leaves the
\* window as it is and keeps the lock; the release() at depth 1 is the one
\* that enters Mutex.release; until then no other rank holds the lock; a
\* release() at depth 0 fails with NotHeld.
C12_NestedDepth ==
    /\ [](lockKind = "RMutex" =>
            \A r \in Ranks : pc[r] = "idle" =>
                /\ count[r] = nest[r]
                /\ nest[r] >= 1 =>
                      holder[r] /\ \A q \in Ranks \ {r} : ~holder[q])
    /\ [][lockKind = "RMutex" =>
            \A r \in Ranks :
                /\ CondAcquire(r) /\ nest[r] >= 1 =>
                      /\ UNCHANGED <<LOCK, NEXT, TAIL, pc, holder, order>>
                      /\ count'[r] = nest[r] + 1
                /\ CondRelease(r) /\ nest[r] >= 2 =>
                      /\ UNCHANGED <<LOCK, NEXT, TAIL, pc, holder, order>>
                      /\ count'[r] = nest[r] - 1
                /\ CondRelease(r) /\ nest[r] = 1 =>
                      pc'[r] \in ReleasePcs /\ count'[r] = 0 /\ ~holder'[r]
                /\ CondRelease(r) /\ nest[r] = 0 =>
                      /\ pc'[r] = "raise_NotHeld"
                      /\ UNCHANGED <<LOCK, NEXT, TAIL, count, holder, order>>
         ]_vars

\* A rank holds the RMutex two deep while another rank spins in a blocking
\* acquire behind it
C12_Witness ==
    /\ lockKind = "RMutex"
    /\ \E r, q \in Ranks :
          /\ pc[r] = "idle" /\ nest[r] = 2 /\ count[r] = 2
          /\ pc[q] = "acq_spin" /\ prev[q] = r /\ NEXT[r] = q

\* C13: when wait() returns, the rank holds the lock again and, on an
\* RMutex, its count is the depth it called wait() at; while it sleeps its
\* LOCK slot is 0, it is not the holder, TAIL is not its rank, its count is
\* 0 and the depth is kept in the saved state.
C13_WaitRestoresDepth ==
    /\ [](\A r \in Ranks : pc[r] = "wait_sleep" =>
            /\ ~Locked(r) /\ ~holder[r] /\ TAIL # r /\ count[r] = 0
            /\ lockKind = "RMutex" => state[r] = nest[r] /\ nest[r] >= 1)
    /\ [][\A r \in Ranks : WaitRestore(r) =>
            /\ Locked(r)' /\ holder'[r] /\ pc'[r] = "idle"
            /\ \A q \in Ranks \ {r} : ~holder'[q]
            /\ lockKind = "RMutex" => count'[r] = nest[r] /\ nest'[r] = nest[r]
         ]_vars

\* A rank that called wait() two deep sleeps while another rank holds the
\* lock and is inside notify
C13_Witness ==
    /\ lockKind = "RMutex"
    /\ \E r, q \in Ranks :
          /\ pc[r] = "wait_sleep" /\ nest[r] = 2
          /\ pc[q] = "ntf_wake" /\ holder[q]

\* ----------------------------------------------------- claims on free()
\* Rank r calls an operation of the Condition other than free()
CondOp(r) ==
    CondAcquire(r) \/ CondRelease(r) \/ Wait(r) \/ Notify(r)

HeldPcs ==
    ReleasePcs \cup {"enq_link", "enq_self", "deq_head", "ntf_wake"}

\* C15: Mutex.acquire() by a rank that holds the mutex fails with
\* AlreadyHeld (so a call that reaches the swap on TAIL is by a rank that
\* does not hold it), and release(), wait() and notify() by a rank that
\* does not hold the lock fail with NotHeld (so a call that goes on is by
\* the holder); the step that fails, and the exception leaving the call,
\* change nothing but the caller's own control state: no window slot, no
\* queue, no count, and no other rank's position in its acquire or wait.
C15_FailuresChangeNothing ==
    [][\A r \in Ranks :
         /\ (pc[r] = "idle" /\ pc'[r] = "acq_swap") => ~Locked(r)
         /\ (pc[r] = "idle" /\ pc'[r] \in HeldPcs) => Locked(r)
         /\ (pc[r] = "idle" /\ pc'[r] = "raise_AlreadyHeld")
               => Locked(r) /\ lockKind = "Mutex"
         /\ (pc[r] = "idle" /\ pc'[r] = "raise_NotHeld") => ~Locked(r)
         /\ ( /\ pc'[r] # pc[r]
              /\ \/ pc'[r] \in {"raise_AlreadyHeld", "raise_NotHeld"}
                 \/ pc[r] \in {"raise_AlreadyHeld", "raise_NotHeld"} )
               => /\ UNCHANGED allButPc
                  /\ pc[r] \in {"idle", "raise_AlreadyHeld", "raise_NotHeld"}
                  /\ pc'[r] \in {"idle", "raise_AlreadyHeld", "raise_NotHeld"}
                  /\ \A q \in Ranks \ {r} : pc'[q] = pc[q]
      ]_vars

\* The holder's acquire() is failing with AlreadyHeld and another rank's
\* call with NotHeld while the third rank, linked behind the holder, spins
\* in its own acquire()
C15_Witness ==
    \E r, q, w \in Ranks :
        /\ pc[r] = "raise_AlreadyHeld"
        /\ pc[q] = "raise_NotHeld"
        /\ pc[w] = "acq_spin"
        /\ NEXT[r] = w


\* ---------------------------------------------- claims on quiescence
\* No rank holds the mutex and no rank is inside acquire() or release()
MutexQuiet ==
    \A r \in Ranks :
        ~holder[r] /\ pc[r] \notin (AcquirePcs \cup ReleasePcs)

\* C16: whenever no rank holds the mutex and no acquire() or release() is
\* in progress on any rank, TAIL is NULL_RANK and every LOCK slot is 0.
C16_QuietWindow ==
    MutexQuiet => TAIL = NullRank /\ \A r \in Ranks : LOCK[r] = 0

\* The window at rest after three ranks went through the lock one behind
\* the other: each left its successor's rank in its NEXT slot
C16_Witness ==
    /\ MutexQuiet
    /\ \E a, b, c \in Ranks :
          a # b /\ b # c /\ a # c /\ NEXT[a] = b /\ NEXT[b] = c


\* ------------------------------------------------ claims on null TAIL
\* Rank r, in a blocking acquire(), has swapped itself onto TAIL behind
\* another rank and has not got the lock yet
Queued(r) ==
    \/ pc[r] = "acq_link"
    \/ pc[r] = "acq_spin" /\ LOCK[r] = 0

\* C19 as stated: in every reachable state, if TAIL is NULL_RANK then no
\* rank has LOCK = 1 and no rank is waiting in a blocking acquire().
C19_NullTailNobody ==
    TAIL = NullRank =>
        \A r \in Ranks : LOCK[r] # 1 /\ ~Queued(r)

\* C19 amended: if TAIL is NULL_RANK then no rank holds the mutex, no rank
\* is waiting in a blocking acquire() (linking itself or spinning), and a
\* rank with LOCK = 1 is at the end of release(): it has swapped TAIL to
\* null or passed the lock on, and has not yet written 0 to its own LOCK.
C19_NullTailNoHolder ==
    TAIL = NullRank =>
        \A r \in Ranks :
            /\ ~holder[r]
            /\ pc[r] \notin {"acq_link", "acq_spin"}
            /\ LOCK[r] = 1 => pc[r] = "rel_flag"

\* A release() has swapped TAIL back to null and not yet cleared its LOCK
\* slot, while another rank is at the start of a blocking acquire()
C19_Witness ==
    \E r, q \in Ranks :
        /\ TAIL = NullRank
        /\ LOCK[r] = 1
        /\ pc[r] = "rel_flag"
        /\ pc[q] = "acq_swap" /\ blocking[q]


\* ------------------------------------------------- claims on _dequeue
\* Rank r is inside _dequeue, called with a non-positive argument
DequeueNone(r) == pc[r] \in {"deq_head", "deq_loop"} /\ narg[r] <= 0

\* _dequeue has returned to rank r, which asked for at least as many
\* ranks as were queued when it was called
Drained(r) == pc[r] = "ntf_wake" /\ maxnumprocs[r] >= Len(wentry[r])

\* C20: _dequeue(0), and _dequeue of a negative number, returns an empty
\* list, and from its call to its return TAIL and every NEXT slot keep
\* their values; _dequeue(m) with m at least the number of queued ranks
\* returns each queued rank exactly once and leaves TAIL null; an
\* _enqueue that finds TAIL null ends with TAIL and the caller's NEXT slot
\* both holding the caller's rank, a queue of that one rank.
C20_Dequeue ==
    /\ [](\A r \in Ranks :
            /\ (pc[r] = "ntf_wake" /\ narg[r] <= 0) => processes[r] = <<>>
            /\ Drained(r) =>
                  /\ Len(processes[r]) = Len(wentry[r])
                  /\ Range(processes[r]) = Range(wentry[r])
                  /\ Cardinality(Range(processes[r])) = Len(processes[r])
                  /\ CTAIL = NullRank
                  /\ Ring = <<>>)
    /\ [][\A r \in Ranks :
            /\ (DequeueNone(r) \/ (pc[r] = "idle" /\ DequeueNone(r)'))
                  => UNCHANGED <<CNEXT, CTAIL, waitq>>
            /\ (pc[r] = "enq_self" /\ cprev[r] = NullRank
                                   /\ pc'[r] = "wait_release")
                  => CTAIL' = r /\ CNEXT'[r] = r /\ Ring' = <<r>>
       ]_vars

\* _dequeue(0) has returned nothing to a notifier and left alone a queue
\* of one rank, whose NEXT slot holds its own rank, while a rank that an
\* earlier notify took off the queue has still to wake up
C20_Witness ==
    \E r, q \in Ranks :
        /\ pc[r] = "ntf_wake"
        /\ narg[r] <= 0
        /\ processes[r] = <<>>
        /\ wentry[r] = <<q>>
        /\ CTAIL = q /\ CNEXT[q] = q
        /\ wakeups # {}


\* --------------------------------------------- claims on Mutex.free()
\* Rank q, in a blocking acquire(), has swapped itself onto TAIL right
\* behind rank r, linked to it or not
Behind(q, r) == prev[q] = r /\ pc[q] \in {"acq_link", "acq_spin"}

\* Rank r is past the release() of Mutex.free(): about to null its handle,
\* inside window.free(), or done
PastFreeRelease(r) == pc[r] \in {"mfree_win", "mfree_coll"} \/ ~mwin[r]

\* C18: Mutex.free() by the holder runs the whole of release() before it
\* nulls the handle and frees the window: once it is past that point the
\* rank no longer holds the mutex, its LOCK slot is 0 and a rank that had
\* swapped itself onto TAIL behind it has LOCK = 1; and a rank behind a
\* holder that is in the release() of free() goes on to return True from
\* its acquire().
C18_FreeHandsOver ==
    /\ [](\A r \in Ranks :
            PastFreeRelease(r) =>
                /\ ~holder[r]
                /\ LOCK[r] = 0
                /\ TAIL # r
                /\ \A q \in Ranks : Behind(q, r) => LOCK[q] = 1)
    /\ \A r, q \in Ranks :
          (freeing[r] = "lock" /\ pc[r] \in ReleasePcs /\ Behind(q, r))
              ~> (holder[q] /\ LOCK[q] = 1)

\* The holder's free() has finished its release() and the rank that was
\* queued behind it, still in its spin loop, has been given the lock
C18_Witness ==
    \E r, q \in Ranks :
        /\ freeing[r] = "lock"
        /\ pc[r] = "mfree_win"
        /\ Behind(q, r)
        /\ LOCK[q] = 1


\* ------------------------------------------------ claims on Sequential
\* Rank r is inside its section of round k: its k-th begin() has returned
\* and its k-th end() has not been called
InSection(r, k) == began[r] = k /\ ended[r] = k - 1

\* C17: for every round k, rank r+1's k-th begin() returns only after rank
\* r's k-th end() was called, so a rank is never in its section of a
\* round while a lower rank is in, or has still to enter, its section of
\* the same round; the messages waiting for a rank are the end() calls of
\* the rank below less its own begin() returns; with a single rank no
\* message is ever sent and no call is ever inside Recv or Send.
C17_AscendingSections ==
    /\ [](/\ \A a, b \in SeqRanks : a < b => began[b] <= ended[a]
          /\ \A a, b \in SeqRanks : \A k \in 1 .. MaxRounds :
                a < b /\ InSection(b, k) => ~InSection(a, k) /\ ended[a] >= k
          /\ \A r \in SeqRanks \ {0} : inbox[r] = ended[r - 1] - began[r]
          /\ seqSize = 1 =>
                \A r \in Ranks :
                    inbox[r] = 0 /\ pc[r] \notin {"seq_recv", "seq_send"})
    /\ [][\A r \in SeqRanks \ {0} :
            began'[r] # began[r]
                => began'[r] = began[r] + 1 /\ ended[r - 1] >= began'[r]
       ]_vars

\* The last of several ranks is inside its section of the last round,
\* after every rank below it has ended that round
C17_Witness ==
    /\ seqSize = NumRanks
    /\ MaxRounds > 1
    /\ InSection(NumRanks - 1, MaxRounds)
    /\ \A r \in 0 .. (NumRanks - 2) : ended[r] = MaxRounds

=============================================================================

